---- MODULE Spec2Model ----
(***************************************************************************)
(* A model of efficientdet-tf: the COCO evaluation loop (engine.evaluate),  *)
(* the VOC input pipeline (data.voc.build_dataset), the forward step of    *)
(* the detector (models.EfficientDet.call) and the target assignment done  *)
(* by engine.train_single_epoch.                                           *)
(*                                                                         *)
(* Real numbers (tf.float32 coordinates and scores) are exact rationals    *)
(* <<n, d>> in lowest terms with d > 0, so that a product or a quotient is  *)
(* computed and never assumed.                                             *)
(***************************************************************************)
EXTENDS Integers, Sequences, FiniteSets, TLC

VARIABLES
    mode,            \* which entry point of the package this behaviour runs
    im_input_size,   \* <<h, w>>: the size every image is resized to
    batch_size,      \* build_dataset(batch_size=...)
    \* ---- engine.evaluate
    gt_images,       \* gt_coco['images']
    gt_annotations,  \* gt_coco['annotations']
    results_coco,    \* results_coco, then resCOCO.dataset['annotations']
    image_id,        \* evaluate's image_id counter
    annot_id,        \* evaluate's annot_id counter
    consumed,        \* history: one record per image taken from the dataset
    ev_pc,           \* "loop" | "last" (the dataset is exhausted) | "done"
    \* ---- data.voc.build_dataset
    annot_files,     \* the parsed annotation files, in sorted order
    shuffle,         \* build_dataset(shuffle=...)
    emitted,         \* the batches iteration has yielded, each with its index
    ds_pc,           \* "run" | "error" (iteration raised)
    \* ---- models.EfficientDet.call
    call_pc,         \* the next statement of call
    training,        \* call(images, training)
    num_classes,     \* EfficientDet(num_classes=...)
    anchors_config,  \* config.AnchorsConfig(): sizes, strides, ratios
    features,        \* bifnp_features: the (H, W) of each pyramid level
    head_anchors,    \* anchors per cell the two heads predict
    bboxes,          \* box head output, then its [-1, 4] reshape
    class_scores,    \* class head output, then its [-1, num_classes] reshape
    anchors,         \* the concatenated anchors
    boxes,           \* decoded, then clipped boxes
    steps,           \* history: the stages that have run, in order
    result,          \* what call returned
    \* ---- engine.train_single_epoch
    tr_anchors,      \* train_single_epoch(anchors=...)
    thresholds,      \* <<negative_threshold, positive_threshold>>
    tr_batches,      \* history: the batches iterated so far
    tr_targets,      \* the assignment computed for each of them
    \* ---- utils.bndbox.nms applied to its own output
    nms_pc,          \* "first" | "second" | "done"
    nms_in,          \* [boxes, scores, nc]: the input of the first application
    nms_out,         \* the detections of the first application
    nms_again        \* the detections of the second application

evalVars == <<gt_images, gt_annotations, results_coco, image_id,
              annot_id, consumed, ev_pc>>
dataVars == <<annot_files, shuffle, emitted, ds_pc>>
callVars == <<call_pc, training, num_classes, anchors_config, features, head_anchors, bboxes, class_scores,
              anchors, boxes, steps, result>>
trainVars == <<tr_anchors, thresholds, tr_batches, tr_targets>>
nmsVars == <<nms_pc, nms_in, nms_out, nms_again>>
vars == <<mode, im_input_size, batch_size, evalVars, dataVars, callVars, trainVars, nmsVars>>

(***************************************************************************)
(* Bounds of the model.                                                    *)
(***************************************************************************)
MaxImages == 2      \* images one evaluation / one dataset holds
MaxGt == 2          \* ground-truth objects of one image
MaxDet == 1         \* detections the model returns for one image
MaxBatchSize == 2   \* build_dataset's batch_size
MaxLevels == 2      \* pyramid levels the neck returns
MaxRows == 2        \* per-anchor predictions of one image

(***************************************************************************)
(* Exact rational arithmetic.                                              *)
(***************************************************************************)
Abs(n) == IF n < 0 THEN -n ELSE n

RECURSIVE GCD(_, _)
GCD(a, b) == IF b = 0 THEN a ELSE GCD(b, a % b)

Rat(n, d) ==
    LET g == GCD(Abs(n), Abs(d))
        s == IF d < 0 THEN -1 ELSE 1
    IN  <<(s * n) \div g, (s * d) \div g>>

R(n) == <<n, 1>>
RAdd(a, b) == Rat(a[1] * b[2] + b[1] * a[2], a[2] * b[2])
RSub(a, b) == Rat(a[1] * b[2] - b[1] * a[2], a[2] * b[2])
RMul(a, b) == Rat(a[1] * b[1], a[2] * b[2])
RDiv(a, b) == Rat(a[1] * b[2], a[2] * b[1])
RLe(a, b) == a[1] * b[2] <= b[1] * a[2]
RLt(a, b) == a[1] * b[2] < b[1] * a[2]
RMax(a, b) == IF RLe(a, b) THEN b ELSE a
RMin(a, b) == IF RLe(a, b) THEN a ELSE b

\* A box (x1, y1, x2, y2) with integer coordinates.
Box(x1, y1, x2, y2) == <<R(x1), R(y1), R(x2), R(y2)>>

SeqsUpTo(S, n) == UNION {[1..k -> S] : k \in 0..n}

\* The sequences of at most n distinct elements of S
DistinctSeqsUpTo(S, n) ==
    {s \in SeqsUpTo(S, n) : \A i, j \in DOMAIN s : s[i] = s[j] => i = j}

Range(s) == {s[i] : i \in DOMAIN s}

RECURSIVE Flatten(_)
Flatten(ss) == IF ss = <<>> THEN <<>> ELSE Head(ss) \o Flatten(Tail(ss))

Max2(a, b) == IF a >= b THEN a ELSE b

RECURSIVE MaxLen(_)
MaxLen(ss) == IF ss = <<>> THEN 0 ELSE Max2(Len(Head(ss)), MaxLen(Tail(ss)))

(***************************************************************************)
(* data.voc.build_dataset: padded_batch.  An element of the zipped dataset  *)
(* is [labels, boxes]; a batch pads every element to the longest one with  *)
(* label -1 and the box (0, 0, 0, 0).                                      *)
(***************************************************************************)
PadLabel == -1
PadBox == Box(0, 0, 0, 0)

PadTo(s, n, v) == [i \in 1..n |-> IF i <= Len(s) THEN s[i] ELSE v]

padded_batch(elems) ==
    LET n == MaxLen([i \in DOMAIN elems |-> elems[i].labels])
    IN  [labels |-> [i \in DOMAIN elems |-> PadTo(elems[i].labels, n, PadLabel)],
         bbs    |-> [i \in DOMAIN elems |-> PadTo(elems[i].boxes, n, PadBox)]]

(***************************************************************************)
(* engine._COCO_result and engine._COCO_gt_annot                           *)
(***************************************************************************)
Min2(a, b) == IF a <= b THEN a ELSE b

\* Mutation of _COCO_result: width and height stacked in the wrong order
_COCO_result_hw(img_id, labels, bxs, scores) ==
    LET b_h == [i \in DOMAIN bxs |-> RSub(bxs[i][4], bxs[i][2])]
        b_w == [i \in DOMAIN bxs |-> RSub(bxs[i][3], bxs[i][1])]
        coco_bboxes == [i \in DOMAIN bxs |->
                           <<bxs[i][1], bxs[i][2], b_h[i], b_w[i]>>]
        n == Min2(Len(labels), Min2(Len(coco_bboxes), Len(scores)))
    IN  [i \in 1..n |->
            [image_id |-> img_id, category_id |-> labels[i],
             bbox |-> coco_bboxes[i], score |-> scores[i]]]

\* zip(labels, coco_bboxes, scores) stops at the shortest of the three
_COCO_result(img_id, labels, bxs, scores) ==
    LET b_h == [i \in DOMAIN bxs |-> RSub(bxs[i][4], bxs[i][2])]
        b_w == [i \in DOMAIN bxs |-> RSub(bxs[i][3], bxs[i][1])]
        \* tf.transpose(tf.stack([x1, y1, b_w, b_h])): one row per box
        coco_bboxes == [i \in DOMAIN bxs |->
                           <<bxs[i][1], bxs[i][2], b_w[i], b_h[i]>>]
        n == Min2(Len(labels), Min2(Len(coco_bboxes), Len(scores)))
    IN  [i \in 1..n |->
            [image_id |-> img_id, category_id |-> labels[i],
             bbox |-> coco_bboxes[i], score |-> scores[i]]]

_COCO_gt_annot(img_id, ann_id, image_shape, labels, bxs) ==
    LET b_h == [i \in DOMAIN bxs |-> RSub(bxs[i][4], bxs[i][2])]
        b_w == [i \in DOMAIN bxs |-> RSub(bxs[i][3], bxs[i][1])]
        areas == [i \in DOMAIN bxs |-> RMul(b_h[i], b_w[i])]
        coco_bboxes == [i \in DOMAIN bxs |->
                           <<bxs[i][1], bxs[i][2], b_w[i], b_h[i]>>]
        image == [id |-> img_id, height |-> image_shape[1],
                  width |-> image_shape[2]]
        annotations ==
            [i \in 1..Len(coco_bboxes) |->
                [id |-> ann_id + (i - 1), image_id |-> img_id,
                 bbox |-> coco_bboxes[i], iscrowd |-> 0, area |-> areas[i],
                 category_id |-> labels[i]]]
    IN  <<image, annotations>>

(***************************************************************************)
(* engine.evaluate                                                         *)
(***************************************************************************)
\* tf.boolean_mask(s, mask)
RECURSIVE boolean_mask(_, _)
boolean_mask(s, mask) ==
    IF s = <<>> THEN <<>>
    ELSE (IF Head(mask) THEN <<Head(s)>> ELSE <<>>)
         \o boolean_mask(Tail(s), Tail(mask))

\* Mutation of no_padding_mask: the padding is not masked out
no_padding_mask_all(gt_labels) == [i \in DOMAIN gt_labels |-> TRUE]

\* gt_labels != -1
no_padding_mask(gt_labels) == [i \in DOMAIN gt_labels |-> gt_labels[i] # -1]

\* Mutation of evaluate_image: annot_id is not advanced past the image's
\* annotations
evaluate_image_same_annot_id(st, gt_labels0, gt_boxes0, pred, shape) ==
    LET mask == [i \in DOMAIN gt_labels0 |-> gt_labels0[i] # -1]
        gt_labels == boolean_mask(gt_labels0, mask)
        gt_boxes == boolean_mask(gt_boxes0, mask)
        ga == _COCO_gt_annot(st.image_id, st.annot_id, shape, gt_labels, gt_boxes)
        results == IF Len(pred.labels) > 0
                   THEN _COCO_result(st.image_id, pred.labels, pred.boxes,
                                     pred.scores)
                   ELSE <<>>
    IN  [images      |-> Append(st.images, ga[1]),
         annotations |-> st.annotations \o ga[2],
         results     |-> st.results \o results,
         image_id    |-> st.image_id + 1,
         annot_id    |-> st.annot_id]

\* One iteration of `for batch_idx in range(len(bboxes))` (lines 149-170).
\* st is [images, annotations, results, image_id, annot_id].
evaluate_image(st, gt_labels0, gt_boxes0, pred, shape) ==
    LET mask == no_padding_mask(gt_labels0)
        gt_labels == boolean_mask(gt_labels0, mask)
        gt_boxes == boolean_mask(gt_boxes0, mask)
        ga == _COCO_gt_annot(st.image_id, st.annot_id, shape, gt_labels, gt_boxes)
        im_annot == ga[1]
        annots == ga[2]
        results == IF Len(pred.labels) > 0
                   THEN _COCO_result(st.image_id, pred.labels, pred.boxes,
                                     pred.scores)
                   ELSE <<>>
    IN  [images      |-> Append(st.images, im_annot),
         annotations |-> st.annotations \o annots,
         results     |-> st.results \o results,
         image_id    |-> st.image_id + 1,
         annot_id    |-> st.annot_id + Len(annots)]

\* The body of `for i, (images, (labels, bbs)) in enumerate(dataset)`:
\* preds is model(images, training=False), one entry per image.
RECURSIVE evaluate_batch(_, _, _, _, _)
evaluate_batch(st, batch, preds, batch_idx, shape) ==
    IF batch_idx > Len(preds) THEN st
    ELSE evaluate_batch(
             evaluate_image(st, batch.labels[batch_idx], batch.bbs[batch_idx],
                            preds[batch_idx], shape),
             batch, preds, batch_idx + 1, shape)

\* Lines 181-190: the fields every result gets before resCOCO indexes them.
index_results(res) ==
    [i \in DOMAIN res |->
        LET bb == res[i].bbox
            x1 == bb[1]
            x2 == RAdd(bb[1], bb[3])
            y1 == bb[2]
            y2 == RAdd(bb[2], bb[4])
        IN  [image_id |-> res[i].image_id, category_id |-> res[i].category_id,
             bbox |-> bb, score |-> res[i].score,
             segmentation |-> <<<<x1, y1, x1, y2, x2, y2, x2, y1>>>>,
             area |-> RMul(bb[3], bb[4]), id |-> i, iscrowd |-> 0]]

\* ---- the inputs evaluate is run on
InputSizes == {<<128, 128>>, <<4, 8>>}

\* Ground truth as the dataset holds it: class index and pixel box.
GtEntries == {[label |-> 0, box |-> Box(1, 2, 4, 7)],
              [label |-> 1, box |-> <<Rat(64, 5), Rat(64, 5), R(64), R(64)>>]}

\* What the model returns for one image.
Detections == {[label |-> 1, box |-> <<R(2), Rat(1, 2), R(5), R(8)>>,
                score |-> Rat(9, 10)]}

\* The objects of one image are distinct
GtLists == DistinctSeqsUpTo(GtEntries, MaxGt)
DetLists == SeqsUpTo(Detections, MaxDet)

Element(gts) == [labels |-> [i \in DOMAIN gts |-> gts[i].label],
                 boxes  |-> [i \in DOMAIN gts |-> gts[i].box]]

Prediction(dets) == [labels |-> [i \in DOMAIN dets |-> dets[i].label],
                     boxes  |-> [i \in DOMAIN dets |-> dets[i].box],
                     scores |-> [i \in DOMAIN dets |-> dets[i].score]]

EvalIdle ==
    /\ gt_images = <<>> /\ gt_annotations = <<>>
    /\ results_coco = <<>> /\ image_id = 0 /\ annot_id = 0
    /\ consumed = <<>> /\ ev_pc = "idle"

\* One pass of the loop over the dataset (lines 141-170): the dataset yields
\* the next batch (a short one only as its last) and the model its detections.
EvaluateBatch ==
    /\ mode = "evaluate"
    /\ ev_pc = "loop"
    /\ \E n \in 1..batch_size :
          /\ Len(consumed) + n <= MaxImages
          /\ \E gts \in [1..n -> GtLists], dets \in [1..n -> DetLists] :
                LET batch == padded_batch([i \in 1..n |-> Element(gts[i])])
                    preds == [i \in 1..n |-> Prediction(dets[i])]
                    st0 == [images |-> gt_images,
                            annotations |-> gt_annotations,
                            results |-> results_coco,
                            image_id |-> image_id, annot_id |-> annot_id]
                    st == evaluate_batch(st0, batch, preds, 1, im_input_size)
                IN  /\ gt_images' = st.images
                    /\ gt_annotations' = st.annotations
                    /\ results_coco' = st.results
                    /\ image_id' = st.image_id
                    /\ annot_id' = st.annot_id
                    /\ consumed' = consumed \o
                          [i \in 1..n |->
                              [image_id |-> image_id + (i - 1),
                               gt |-> gts[i],
                               labels |-> batch.labels[i],
                               bbs |-> batch.bbs[i],
                               pred |-> preds[i]]]
                    /\ ev_pc' = IF n < batch_size THEN "last" ELSE "loop"
    /\ UNCHANGED <<mode, im_input_size, batch_size, dataVars, callVars,
                   trainVars, nmsVars>>

\* Lines 172-191: the dataset is exhausted; the results are indexed.
EvaluateFinish ==
    /\ mode = "evaluate"
    /\ ev_pc \in {"loop", "last"}
    /\ results_coco' = index_results(results_coco)
    /\ ev_pc' = "done"
    /\ UNCHANGED <<mode, im_input_size, batch_size, gt_images, gt_annotations,
                   image_id, annot_id, consumed, dataVars, callVars,
                   trainVars, nmsVars>>

(***************************************************************************)
(* data.voc: _read_voc_annot, _scale_boxes, build_dataset.  A tensor is    *)
(* [shape, rows]; an annotation file is [size |-> <<height, width>>,       *)
(* objects |-> a sequence of [name, bndbox |-> <<xmin, ymin, xmax, ymax>>]].*)
(***************************************************************************)
IDX_2_LABEL == <<"bin">>

LABEL_2_IDX == [l \in Range(IDX_2_LABEL) |->
                   (CHOOSE i \in DOMAIN IDX_2_LABEL : IDX_2_LABEL[i] = l) - 1]

\* tf.stack(bbs) of a Python list of 4-tuples: n rows of 4, and for the empty
\* list the constant tensor of [], whose shape is (0,)
tf_stack(bbs) ==
    IF bbs = <<>> THEN [shape |-> <<0>>, rows |-> <<>>]
    ELSE [shape |-> <<Len(bbs), 4>>, rows |-> bbs]

\* utils.bndbox.normalize_bndboxes: x over the width, y over the height
normalize_bndboxes(bbs, image_size) ==
    LET h == image_size[1]
        w == image_size[2]
    IN  [shape |-> bbs.shape,
         rows  |-> [i \in DOMAIN bbs.rows |->
                       <<Rat(bbs.rows[i][1], w), Rat(bbs.rows[i][2], h),
                         Rat(bbs.rows[i][3], w), Rat(bbs.rows[i][4], h)>>]]

_read_voc_annot(annot) ==
    LET image_size == annot.size
        bxs == annot.objects
        bbs == [i \in DOMAIN bxs |-> bxs[i].bndbox]
        labels == [i \in DOMAIN bxs |-> LABEL_2_IDX[bxs[i].name]]
    IN  <<labels, normalize_bndboxes(tf_stack(bbs), image_size)>>

\* Mutation of _scale_boxes: h and w taken from to_size in the wrong order
_scale_boxes_wh(labels, bxs, to_size) ==
    LET w == to_size[1]
        h == to_size[2]
    IN  IF Len(bxs.shape) < 2
        THEN [raised |-> TRUE, labels |-> <<>>, boxes |-> <<>>]
        ELSE [raised |-> FALSE,
              labels |-> labels,
              boxes  |-> [i \in DOMAIN bxs.rows |->
                             <<RMul(bxs.rows[i][1], R(w)),
                               RMul(bxs.rows[i][2], R(h)),
                               RMul(bxs.rows[i][3], R(w)),
                               RMul(bxs.rows[i][4], R(h))>>]]

\* Mutation of _scale_boxes: the boxes are passed on as fractions
_scale_boxes_unscaled(labels, bxs, to_size) ==
    IF Len(bxs.shape) < 2
    THEN [raised |-> TRUE, labels |-> <<>>, boxes |-> <<>>]
    ELSE [raised |-> FALSE, labels |-> labels, boxes |-> bxs.rows]

\* tf.split(boxes, 4, axis=1) needs a second axis, and raises when there is
\* none
_scale_boxes(labels, bxs, to_size) ==
    LET h == to_size[1]
        w == to_size[2]
    IN  IF Len(bxs.shape) < 2
        THEN [raised |-> TRUE, labels |-> <<>>, boxes |-> <<>>]
        ELSE [raised |-> FALSE,
              labels |-> labels,
              boxes  |-> [i \in DOMAIN bxs.rows |->
                             <<RMul(bxs.rows[i][1], R(w)),
                               RMul(bxs.rows[i][2], R(h)),
                               RMul(bxs.rows[i][3], R(w)),
                               RMul(bxs.rows[i][4], R(h))>>]]

\* annot_ds: from_generator(_annot_gen).map(scale_boxes), one element
annot_elem(annot, to_size) ==
    LET la == _read_voc_annot(annot)
    IN  _scale_boxes(la[1], la[2], to_size)

\* The annotations behind batch k of the dataset
batch_annots(files, bs, k) ==
    SubSeq(files, (k - 1) * bs + 1, Min2(k * bs, Len(files)))

num_batches(files, bs) == (Len(files) + bs - 1) \div bs

\* Batch k as padded_batch builds it; raised when one of its elements cannot
\* be computed
dataset_batch(files, bs, to_size, k) ==
    LET as == batch_annots(files, bs, k)
        elems == [i \in DOMAIN as |-> annot_elem(as[i], to_size)]
        b == padded_batch(elems)
    IN  IF \E i \in DOMAIN elems : elems[i].raised
        THEN [raised |-> TRUE, labels |-> <<>>, bbs |-> <<>>]
        ELSE [raised |-> FALSE, labels |-> b.labels, bbs |-> b.bbs]

\* ---- the annotation files a dataset directory may hold
VocSizes == {<<10, 10>>, <<4, 8>>}

VocObjects == {[name |-> "bin", bndbox |-> <<1, 1, 5, 5>>],
               [name |-> "bin", bndbox |-> <<0, 1, 8, 3>>]}

InImage(o, size) ==
    /\ 0 <= o.bndbox[1] /\ o.bndbox[1] <= o.bndbox[3] /\ o.bndbox[3] <= size[2]
    /\ 0 <= o.bndbox[2] /\ o.bndbox[2] <= o.bndbox[4] /\ o.bndbox[4] <= size[1]

VocAnnots ==
    UNION {{[size |-> sz, objects |-> os] :
               os \in DistinctSeqsUpTo({o \in VocObjects : InImage(o, sz)},
                                        MaxGt)} :
           sz \in VocSizes}

DataIdle ==
    /\ annot_files = <<>> /\ shuffle = FALSE /\ emitted = <<>> /\ ds_pc = "idle"

\* Iterating the dataset yields its next batch.  Without shuffle the batches
\* come in file order; ds.shuffle(128) first fills its buffer from the
\* batched dataset and then yields the buffered batches in any order.
DatasetNext ==
    /\ mode = "dataset"
    /\ ds_pc = "run"
    /\ LET nb == num_batches(annot_files, batch_size)
           done == {emitted[i].index : i \in DOMAIN emitted}
           left == (1..nb) \ done
           first == CHOOSE k \in left : \A j \in left : k <= j
           ready == IF shuffle THEN left ELSE {first}
           needed == IF shuffle THEN 1..nb ELSE {first}
       IN  /\ left # {}
           /\ IF \E k \in needed :
                    dataset_batch(annot_files, batch_size, im_input_size,
                                  k).raised
              THEN /\ ds_pc' = "error"
                   /\ emitted' = emitted
              ELSE /\ \E k \in ready :
                        emitted' = Append(emitted,
                            [index |-> k,
                             batch |-> dataset_batch(annot_files, batch_size,
                                                     im_input_size, k)])
                   /\ ds_pc' = "run"
    /\ UNCHANGED <<mode, im_input_size, batch_size, annot_files, shuffle,
                   evalVars, callVars, trainVars, nmsVars>>

(***************************************************************************)
(* utils.bndbox and utils.anchors: box geometry.                           *)
(***************************************************************************)
RZero == R(0)

box_area(b) == RMul(RSub(b[3], b[1]), RSub(b[4], b[2]))

\* iou of two boxes; a pair whose union is empty has IoU 0
iou(a, b) ==
    LET iw == RMax(RZero, RSub(RMin(a[3], b[3]), RMax(a[1], b[1])))
        ih == RMax(RZero, RSub(RMin(a[4], b[4]), RMax(a[2], b[2])))
        inter == RMul(iw, ih)
        union == RSub(RAdd(box_area(a), box_area(b)), inter)
    IN  IF RLe(union, RZero) THEN RZero ELSE RDiv(inter, union)

\* clip_boxes(boxes, (h, w)): x into [0, w], y into [0, h]
clip_boxes(bxs, size) ==
    LET h == R(size[1])
        w == R(size[2])
        cl(v, hi) == RMax(RZero, RMin(v, hi))
    IN  [i \in DOMAIN bxs |->
            <<cl(bxs[i][1], w), cl(bxs[i][2], h),
              cl(bxs[i][3], w), cl(bxs[i][4], h)>>]

\* decode of one anchor and one delta (dx, dy, e^dw, e^dh): the last two
\* components of a delta hold the exponentials the decoder multiplies by
decode_box(a, d) ==
    LET half == Rat(1, 2)
        aw == RSub(a[3], a[1])
        ah == RSub(a[4], a[2])
        acx == RAdd(a[1], RMul(half, aw))
        acy == RAdd(a[2], RMul(half, ah))
        cx == RAdd(RMul(d[1], aw), acx)
        cy == RAdd(RMul(d[2], ah), acy)
        w == RMul(d[3], aw)
        h == RMul(d[4], ah)
    IN  <<RSub(cx, RMul(half, w)), RSub(cy, RMul(half, h)),
          RAdd(cx, RMul(half, w)), RAdd(cy, RMul(half, h))>>

\* regress_bndboxes(anchors, deltas) on [A, 4] and [N, 4]: element-wise
\* tensor arithmetic, so an axis of length 1 is broadcast and any other
\* difference of lengths raises
regress_bndboxes(ancs, deltas) ==
    LET A == Len(ancs)
        N == Len(deltas)
    IN  IF A = N
        THEN [raised |-> FALSE,
              rows |-> [i \in 1..N |-> decode_box(ancs[i], deltas[i])]]
        ELSE IF A = 1
        THEN [raised |-> FALSE,
              rows |-> [i \in 1..N |-> decode_box(ancs[1], deltas[i])]]
        ELSE IF N = 1
        THEN [raised |-> FALSE,
              rows |-> [i \in 1..A |-> decode_box(ancs[i], deltas[1])]]
        ELSE [raised |-> TRUE, rows |-> <<>>]

\* The square root of a rational that is a square
ISqrt(n) == CHOOSE k \in 0..n : k * k = n
RSqrt(r) == <<ISqrt(r[1]), ISqrt(r[2])>>

\* AnchorGenerator(size, aspect_ratios, stride)(feature_shape): row-major over
\* the H x W cells, then the aspect ratios of each cell; the flat index is
\* ((i * W) + j) * k + r
AnchorGenerator(size, aspect_ratios, stride, shape) ==
    LET H == shape[1]
        W == shape[2]
        k == Len(aspect_ratios)
        half == Rat(1, 2)
        anchor(i, j, r) ==
            LET cx == RMul(R(stride), RAdd(R(j), half))
                cy == RMul(R(stride), RAdd(R(i), half))
                sq == RSqrt(aspect_ratios[r])
                w == RMul(R(size), sq)
                h == RDiv(R(size), sq)
            IN  <<RSub(cx, RMul(half, w)), RSub(cy, RMul(half, h)),
                  RAdd(cx, RMul(half, w)), RAdd(cy, RMul(half, h))>>
    IN  [n \in 1..(H * W * k) |->
            anchor(((n - 1) \div k) \div W, ((n - 1) \div k) % W,
                   ((n - 1) % k) + 1)]

(***************************************************************************)
(* utils.bndbox.nms: per class, drop the scores under the confidence       *)
(* threshold, order by descending score, keep greedily.                    *)
(***************************************************************************)
score_threshold == Rat(1, 20)
iou_threshold == Rat(1, 2)

\* The indices of idx ordered by descending score, ties in index order
RECURSIVE by_score(_, _)
by_score(idx, sc) ==
    IF idx = {} THEN <<>>
    ELSE LET best == CHOOSE i \in idx :
                        \A j \in idx : \/ RLt(sc[j], sc[i])
                                       \/ (sc[j] = sc[i] /\ i <= j)
         IN  <<best>> \o by_score(idx \ {best}, sc)

\* Mutation of greedy: the pass stops suppressing after its first hit
RECURSIVE greedy_first_hit(_, _, _)
greedy_first_hit(order, bxs, kept) ==
    IF order = <<>> THEN kept
    ELSE LET i == Head(order)
             hit == \E k \in Range(kept) :
                        RLt(iou_threshold, iou(bxs[k], bxs[i]))
         IN  IF hit THEN kept \o Tail(order)
             ELSE greedy_first_hit(Tail(order), bxs, Append(kept, i))

\* The greedy pass over the ordered candidates
RECURSIVE greedy(_, _, _)
greedy(order, bxs, kept) ==
    IF order = <<>> THEN kept
    ELSE LET i == Head(order)
             hit == \E k \in Range(kept) :
                        RLt(iou_threshold, iou(bxs[k], bxs[i]))
         IN  greedy(Tail(order), bxs, IF hit THEN kept ELSE Append(kept, i))

nms_class(bxs, scores, c) ==
    LET sc == [i \in DOMAIN bxs |-> scores[i][c]]
        cand == {i \in DOMAIN bxs : RLe(score_threshold, sc[i])}
        keep == greedy(by_score(cand, sc), bxs, <<>>)
    IN  [i \in DOMAIN keep |->
            [box |-> bxs[keep[i]], label |-> c - 1, score |-> sc[keep[i]]]]

\* nms(boxes, class_scores) -> (boxes, labels, scores) of one image
nms(bxs, scores, nc) ==
    LET dets == Flatten([c \in 1..nc |-> nms_class(bxs, scores, c)])
    IN  [boxes  |-> [i \in DOMAIN dets |-> dets[i].box],
         labels |-> [i \in DOMAIN dets |-> dets[i].label],
         scores |-> [i \in DOMAIN dets |-> dets[i].score]]

(***************************************************************************)
(* models.EfficientDet.call on a batch of one image.  The backbone, the    *)
(* neck and the two heads are black boxes: they return some feature maps   *)
(* and, per level, head_anchors predictions per cell.                      *)
(***************************************************************************)
\* range(3, 8): pyramid levels 3 to 7
NumGenerators == 5

AnchorsConfigs ==
    {[sizes |-> <<32, 64, 128, 256, 512>>, strides |-> <<8, 16, 32, 64, 128>>,
      ratios |-> rs] : rs \in {<<R(1)>>, <<R(1), R(4)>>}}

FeatureShapes == {<<1, 1>>, <<1, 2>>}

\* (dx, dy, e^dw, e^dh)
DeltaSet == {<<R(0), R(0), R(1), R(1)>>, <<Rat(1, 4), R(0), Rat(1, 2), R(2)>>}

ScoreSet == {Rat(1, 100), Rat(9, 10)}

RECURSIVE Cells(_)
Cells(fs) == IF fs = <<>> THEN 0
             ELSE Head(fs)[1] * Head(fs)[2] + Cells(Tail(fs))

\* tf.reshape(t, [batch_size, -1, k]) of one image's flat prediction
reshape(flat, k) ==
    [i \in 1..(Len(flat) \div k) |-> SubSeq(flat, (i - 1) * k + 1, i * k)]

\* Lines 91-93: zip(self.anchors_gen, bifnp_features), then concat
call_anchors(cfg, fs) ==
    Flatten([l \in 1..Min2(NumGenerators, Len(fs)) |->
                AnchorGenerator(cfg.sizes[l], cfg.ratios, cfg.strides[l],
                                fs[l])])

\* Mutation of call_next: the boxes are clipped before they are decoded
call_next_clip_first(stage, tr) ==
    CASE stage = "forward" -> IF tr THEN "return_raw" ELSE "anchors"
      [] stage = "anchors" -> "reshape"
      [] stage = "reshape" -> "clip"
      [] stage = "clip" -> "decode"
      [] stage = "decode" -> "nms"
      [] stage = "nms" -> "done"
      [] stage = "return_raw" -> "done"

\* The statement that follows each stage of call
call_next(stage, tr) ==
    CASE stage = "forward" -> IF tr THEN "return_raw" ELSE "anchors"
      [] stage = "anchors" -> "reshape"
      [] stage = "reshape" -> "decode"
      [] stage = "decode" -> "clip"
      [] stage = "clip" -> "nms"
      [] stage = "nms" -> "done"
      [] stage = "return_raw" -> "done"

CallIdle ==
    /\ call_pc = "idle" /\ training = FALSE /\ num_classes = 0
    /\ anchors_config = <<>> /\ features = <<>> /\ head_anchors = 0
    /\ bboxes = <<>> /\ class_scores = <<>> /\ anchors = <<>> /\ boxes = <<>>
    /\ steps = <<>> /\ result = <<>>

\* Lines 71-84: backbone, neck, heads, concat
CallForward ==
    /\ mode = "call"
    /\ call_pc = "forward"
    /\ \E L \in 1..MaxLevels : \E fs \in [1..L -> FeatureShapes] :
          LET N == Cells(fs) * head_anchors
          IN  /\ N <= MaxRows
              /\ \E ds \in [1..N -> DeltaSet],
                    cs \in [1..N -> [1..num_classes -> ScoreSet]] :
                    /\ features' = fs
                    /\ bboxes' = Flatten(ds)
                    /\ class_scores' = Flatten(cs)
    /\ steps' = Append(steps, "forward")
    /\ call_pc' = call_next("forward", training)
    /\ UNCHANGED <<mode, im_input_size, batch_size, training, num_classes,
                   anchors_config, head_anchors, anchors, boxes, result,
                   evalVars, dataVars, trainVars, nmsVars>>

\* Lines 86-87
CallReturnRaw ==
    /\ mode = "call"
    /\ call_pc = "return_raw"
    /\ result' = <<bboxes, class_scores>>
    /\ call_pc' = call_next("return_raw", training)
    /\ UNCHANGED <<mode, im_input_size, batch_size, training, num_classes,
                   anchors_config, head_anchors, features, bboxes,
                   class_scores, anchors, boxes, steps,
                   evalVars, dataVars, trainVars, nmsVars>>

\* Lines 91-98
CallAnchors ==
    /\ mode = "call"
    /\ call_pc = "anchors"
    /\ anchors' = call_anchors(anchors_config, features)
    /\ steps' = Append(steps, "anchors")
    /\ call_pc' = call_next("anchors", training)
    /\ UNCHANGED <<mode, im_input_size, batch_size, training, num_classes,
                   anchors_config, head_anchors, features, bboxes,
                   class_scores, boxes, result,
                   evalVars, dataVars, trainVars, nmsVars>>

\* Lines 100-103
CallReshape ==
    /\ mode = "call"
    /\ call_pc = "reshape"
    /\ class_scores' = reshape(class_scores, num_classes)
    /\ bboxes' = reshape(bboxes, 4)
    /\ steps' = Append(steps, "reshape")
    /\ call_pc' = call_next("reshape", training)
    /\ UNCHANGED <<mode, im_input_size, batch_size, training, num_classes,
                   anchors_config, head_anchors, features, anchors, boxes,
                   result, evalVars, dataVars, trainVars, nmsVars>>

\* Line 105
CallDecode ==
    /\ mode = "call"
    /\ call_pc = "decode"
    /\ LET r == regress_bndboxes(anchors, bboxes)
       IN  /\ boxes' = r.rows
           /\ call_pc' = IF r.raised THEN "error"
                         ELSE call_next("decode", training)
    /\ steps' = Append(steps, "decode")
    /\ UNCHANGED <<mode, im_input_size, batch_size, training, num_classes,
                   anchors_config, head_anchors, features, bboxes,
                   class_scores, anchors, result,
                   evalVars, dataVars, trainVars, nmsVars>>

\* Line 106
CallClip ==
    /\ mode = "call"
    /\ call_pc = "clip"
    /\ boxes' = clip_boxes(boxes, im_input_size)
    /\ steps' = Append(steps, "clip")
    /\ call_pc' = call_next("clip", training)
    /\ UNCHANGED <<mode, im_input_size, batch_size, training, num_classes,
                   anchors_config, head_anchors, features, bboxes,
                   class_scores, anchors, result,
                   evalVars, dataVars, trainVars, nmsVars>>

\* Lines 107-109; nms raises on boxes and scores of different lengths
CallNms ==
    /\ mode = "call"
    /\ call_pc = "nms"
    /\ IF Len(class_scores) = Len(boxes)
       THEN /\ result' = nms(boxes, class_scores, num_classes)
            /\ call_pc' = call_next("nms", training)
       ELSE /\ result' = result
            /\ call_pc' = "error"
    /\ steps' = Append(steps, "nms")
    /\ UNCHANGED <<mode, im_input_size, batch_size, training, num_classes,
                   anchors_config, head_anchors, features, bboxes,
                   class_scores, anchors, boxes,
                   evalVars, dataVars, trainVars, nmsVars>>

(***************************************************************************)
(* utils.bndbox.nms applied to its own output.  A detection list is turned *)
(* back into nms's input: its boxes, and for each the score of its label   *)
(* and 0 for every other class.                                            *)
(***************************************************************************)
as_input(dets, nc) ==
    [boxes  |-> dets.boxes,
     scores |-> [i \in DOMAIN dets.boxes |->
                    [c \in 1..nc |-> IF c - 1 = dets.labels[i]
                                     THEN dets.scores[i] ELSE RZero]]]

NmsBoxes == {Box(0, 0, 4, 4), Box(1, 0, 5, 4), Box(2, 0, 6, 4), Box(0, 0, 4, 5)}
\* The per-class scores of one box, for one class and for two
NmsScoreRows == {<<Rat(1, 100)>>, <<Rat(4, 5)>>, <<Rat(9, 10)>>,
                 <<Rat(9, 10), Rat(1, 100)>>, <<Rat(4, 5), Rat(9, 10)>>,
                 <<Rat(1, 100), Rat(4, 5)>>, <<Rat(4, 5), Rat(4, 5)>>}
MaxNmsBoxes == 3
NmsClasses == {1, 2}

NmsIdle ==
    /\ nms_pc = "idle" /\ nms_in = <<>> /\ nms_out = <<>> /\ nms_again = <<>>

NmsFirst ==
    /\ mode = "nms"
    /\ nms_pc = "first"
    /\ nms_out' = nms(nms_in.boxes, nms_in.scores, nms_in.nc)
    /\ nms_pc' = "second"
    /\ UNCHANGED <<mode, im_input_size, batch_size, nms_in, nms_again,
                   evalVars, dataVars, callVars, trainVars>>

NmsSecond ==
    /\ mode = "nms"
    /\ nms_pc = "second"
    /\ LET inp == as_input(nms_out, nms_in.nc)
       IN  nms_again' = nms(inp.boxes, inp.scores, nms_in.nc)
    /\ nms_pc' = "done"
    /\ UNCHANGED <<mode, im_input_size, batch_size, nms_in, nms_out,
                   evalVars, dataVars, callVars, trainVars>>

(***************************************************************************)
(* utils.anchors.anchor_targets_bbox and engine.train_single_epoch.        *)
(***************************************************************************)
\* The largest IoU of anchor a with the ground-truth boxes gt, and the box
\* that attains it; 0 and no box when gt is empty
RECURSIVE best_match(_, _, _, _)
best_match(a, gt, i, best) ==
    IF i > Len(gt) THEN best
    ELSE LET v == iou(a, gt[i])
         IN  best_match(a, gt, i + 1,
                        IF RLt(best.iou, v) THEN [iou |-> v, gt |-> i]
                        ELSE best)

\* encode of an anchor and its matched box, as (dx, dy, e^dw, e^dh)
encode_box(a, g) ==
    LET half == Rat(1, 2)
        aw == RSub(a[3], a[1])
        ah == RSub(a[4], a[2])
        gw == RSub(g[3], g[1])
        gh == RSub(g[4], g[2])
        dx == RDiv(RSub(RAdd(g[1], RMul(half, gw)), RAdd(a[1], RMul(half, aw))),
                   aw)
        dy == RDiv(RSub(RAdd(g[2], RMul(half, gh)), RAdd(a[2], RMul(half, ah))),
                   ah)
    IN  <<dx, dy, RDiv(gw, aw), RDiv(gh, ah)>>

\* Mutation of assign_image: an anchor is negative below the positive
\* threshold, so the band between the thresholds is negative and ignored
assign_image_wide_negative(ancs, gt_boxes, gt_labels, thr) ==
    LET m == [a \in DOMAIN ancs |->
                 best_match(ancs[a], gt_boxes, 1, [iou |-> RZero, gt |-> 0])]
        positive == {a \in DOMAIN ancs : RLe(thr[2], m[a].iou)}
        negative == {a \in DOMAIN ancs : RLt(m[a].iou, thr[2])}
        ignored == {a \in DOMAIN ancs :
                       RLe(thr[1], m[a].iou) /\ RLt(m[a].iou, thr[2])}
    IN  [positive |-> positive,
         negative |-> negative,
         ignored  |-> ignored,
         clf |-> [a \in DOMAIN ancs |->
                     IF a \in positive THEN gt_labels[m[a].gt] ELSE -1],
         reg |-> [a \in DOMAIN ancs |->
                     IF a \in positive
                     THEN encode_box(ancs[a], gt_boxes[m[a].gt])
                     ELSE <<RZero, RZero, RZero, RZero>>]]

\* The assignment of one image: thr is <<negative, positive>>
assign_image(ancs, gt_boxes, gt_labels, thr) ==
    LET m == [a \in DOMAIN ancs |->
                 best_match(ancs[a], gt_boxes, 1, [iou |-> RZero, gt |-> 0])]
        positive == {a \in DOMAIN ancs : RLe(thr[2], m[a].iou)}
        negative == {a \in DOMAIN ancs : RLt(m[a].iou, thr[1])}
        ignored == {a \in DOMAIN ancs :
                       RLe(thr[1], m[a].iou) /\ RLt(m[a].iou, thr[2])}
    IN  [positive |-> positive,
         negative |-> negative,
         ignored  |-> ignored,
         clf |-> [a \in DOMAIN ancs |->
                     IF a \in positive THEN gt_labels[m[a].gt] ELSE -1],
         reg |-> [a \in DOMAIN ancs |->
                     IF a \in positive
                     THEN encode_box(ancs[a], gt_boxes[m[a].gt])
                     ELSE <<RZero, RZero, RZero, RZero>>]]

\* anchor_targets_bbox(anchors, images, bbs, labels, num_classes): the images
\* of a batch one by one
anchor_targets_bbox(ancs, bbs, labels, thr) ==
    [b \in DOMAIN bbs |-> assign_image(ancs, bbs[b], labels[b], thr)]

\* Lines 49-54: the targets train_single_epoch computes for one batch
train_targets(ancs, batch, thr) ==
    anchor_targets_bbox(ancs, batch.bbs, batch.labels, thr)

\* ---- the inputs train_single_epoch is run on
\* <<negative_threshold, positive_threshold>>
ThresholdConfigs == {<<Rat(2, 5), Rat(1, 2)>>, <<Rat(3, 10), Rat(1, 2)>>,
                     <<Rat(1, 10), Rat(3, 20)>>}

\* One pyramid level: image size, anchor size, ratios, stride, feature shape
TrainSetups ==
    {[im |-> <<128, 128>>, size |-> 128, ratios |-> <<R(1)>>, stride |-> 128,
      shape |-> <<1, 1>>],
     [im |-> <<4, 8>>, size |-> 4, ratios |-> <<R(1), R(4)>>, stride |-> 4,
      shape |-> <<1, 2>>]}

\* What the dataset holds of the image annotated by a: the annotation through
\* the input pipeline, and no label and no box for an image without objects
train_elem(a, size) ==
    IF a.objects = <<>> THEN [labels |-> <<>>, boxes |-> <<>>]
    ELSE LET e == annot_elem(a, size)
         IN  [labels |-> e.labels, boxes |-> e.boxes]

\* The annotations of the images train_single_epoch is run on
TrainAnnots ==
    {[size |-> <<10, 10>>, objects |-> <<>>],
     [size |-> <<10, 10>>,
      objects |-> <<[name |-> "bin", bndbox |-> <<1, 1, 5, 5>>]>>],
     [size |-> <<4, 8>>,
      objects |-> <<[name |-> "bin", bndbox |-> <<0, 1, 8, 3>>]>>],
     [size |-> <<10, 10>>,
      objects |-> <<[name |-> "bin", bndbox |-> <<1, 1, 5, 5>>],
                    [name |-> "bin", bndbox |-> <<0, 1, 8, 3>>]>>]}

TrainIdle ==
    /\ tr_anchors = <<>> /\ thresholds = <<>> /\ tr_batches = <<>>
    /\ tr_targets = <<>>

\* One pass of the loop of train_single_epoch (lines 47-65); the model, the
\* loss and the optimizer are black boxes that leave the targets alone
TrainBatch ==
    /\ mode = "train"
    /\ \E n \in 1..batch_size :
          /\ Len(Flatten([i \in DOMAIN tr_batches |-> tr_batches[i].labels]))
                + n <= MaxImages
          /\ \E as \in [1..n -> TrainAnnots] :
                LET es == [i \in 1..n |-> train_elem(as[i], im_input_size)]
                    batch == padded_batch(es)
                IN  /\ tr_batches' = Append(tr_batches,
                           [annots |-> as, labels |-> batch.labels,
                            bbs |-> batch.bbs])
                    /\ tr_targets' = Append(tr_targets,
                           train_targets(tr_anchors, batch, thresholds))
    /\ UNCHANGED <<mode, im_input_size, batch_size, tr_anchors, thresholds,
                   evalVars, dataVars, callVars, nmsVars>>

(***************************************************************************)
(* The specifications: one per entry point, and their union.               *)
(***************************************************************************)
InitEval ==
    /\ mode = "evaluate"
    /\ im_input_size \in InputSizes
    /\ batch_size \in 1..MaxBatchSize
    /\ gt_images = <<>> /\ gt_annotations = <<>> /\ results_coco = <<>>
    /\ image_id = 1 /\ annot_id = 1 /\ consumed = <<>> /\ ev_pc = "loop"
    /\ DataIdle /\ CallIdle /\ TrainIdle /\ NmsIdle

InitData ==
    /\ mode = "dataset"
    /\ im_input_size \in InputSizes
    /\ batch_size \in 1..MaxBatchSize
    /\ annot_files \in SeqsUpTo(VocAnnots, MaxImages)
    /\ shuffle \in BOOLEAN
    /\ emitted = <<>> /\ ds_pc = "run"
    /\ EvalIdle /\ CallIdle /\ TrainIdle /\ NmsIdle

InitCall ==
    /\ mode = "call"
    /\ im_input_size \in InputSizes
    /\ batch_size = 1
    /\ training \in BOOLEAN
    /\ num_classes \in {1, 2}
    /\ anchors_config \in AnchorsConfigs
    /\ head_anchors \in {1, 2}
    /\ call_pc = "forward"
    /\ features = <<>> /\ bboxes = <<>> /\ class_scores = <<>>
    /\ anchors = <<>> /\ boxes = <<>> /\ steps = <<>> /\ result = <<>>
    /\ EvalIdle /\ DataIdle /\ TrainIdle /\ NmsIdle

InitTrain ==
    /\ mode = "train"
    /\ \E su \in TrainSetups :
          /\ im_input_size = su.im
          /\ tr_anchors = AnchorGenerator(su.size, su.ratios, su.stride,
                                          su.shape)
    /\ batch_size \in 1..MaxBatchSize
    /\ thresholds \in ThresholdConfigs
    /\ tr_batches = <<>> /\ tr_targets = <<>>
    /\ EvalIdle /\ DataIdle /\ CallIdle /\ NmsIdle

InitNms ==
    /\ mode = "nms"
    /\ im_input_size = <<0, 0>>
    /\ batch_size = 1
    /\ nms_pc = "first"
    /\ \E nc \in NmsClasses : \E n \in 0..MaxNmsBoxes :
          \E bs \in [1..n -> NmsBoxes],
             sc \in [1..n -> {r \in NmsScoreRows : Len(r) = nc}] :
             nms_in = [boxes |-> bs, scores |-> sc, nc |-> nc]
    /\ nms_out = <<>> /\ nms_again = <<>>
    /\ EvalIdle /\ DataIdle /\ CallIdle /\ TrainIdle

NextEval == EvaluateBatch \/ EvaluateFinish
NextData == DatasetNext
NextCall == \/ CallForward \/ CallReturnRaw \/ CallAnchors \/ CallReshape
            \/ CallDecode \/ CallClip \/ CallNms
NextTrain == TrainBatch
NextNms == NmsFirst \/ NmsSecond

SpecEval == InitEval /\ [][NextEval]_vars
SpecData == InitData /\ [][NextData]_vars
SpecCall == InitCall /\ [][NextCall]_vars
SpecTrain == InitTrain /\ [][NextTrain]_vars
SpecNms == InitNms /\ [][NextNms]_vars

Init == InitEval \/ InitData \/ InitCall \/ InitTrain \/ InitNms
Next == NextEval \/ NextData \/ NextCall \/ NextTrain \/ NextNms
Spec == Init /\ [][Next]_vars

(***************************************************************************)
(* Properties of engine.evaluate (checked under SpecEval).                 *)
(***************************************************************************)
\* The ground-truth annotations and the results produced for image id k
AnnotsOf(k) == SelectSeq(gt_annotations, LAMBDA a : a.image_id = k)
ResultsOf(k) == SelectSeq(results_coco, LAMBDA r : r.image_id = k)

\* (x_min, y_min, width, height) of the internal box b
IsCocoBox(bbox, b) ==
    /\ bbox[1] = b[1]
    /\ bbox[2] = b[2]
    /\ RAdd(b[1], bbox[3]) = b[3]
    /\ RAdd(b[2], bbox[4]) = b[4]

\* C1: every record handed to the COCO scorer carries its box as (x_min,
\* y_min, width, height) with width = x2 - x1 and height = y2 - y1: the i-th
\* result of an image is its i-th detection (box, label, score), the i-th
\* annotation is its i-th ground-truth object, and an annotation's area is
\* width * height.
C1_CocoBoxConversion ==
    mode = "evaluate" =>
        \A n \in DOMAIN consumed :
            LET c == consumed[n]
                rs == ResultsOf(c.image_id)
                as == AnnotsOf(c.image_id)
            IN  /\ Len(rs) = Len(c.pred.boxes)
                /\ \A i \in DOMAIN rs :
                      /\ IsCocoBox(rs[i].bbox, c.pred.boxes[i])
                      /\ rs[i].category_id = c.pred.labels[i]
                      /\ rs[i].score = c.pred.scores[i]
                /\ Len(as) = Len(c.gt)
                /\ \A i \in DOMAIN as :
                      /\ IsCocoBox(as[i].bbox, c.gt[i].box)
                      /\ as[i].category_id = c.gt[i].label
                      /\ as[i].area = RMul(as[i].bbox[3], as[i].bbox[4])

\* An image with a detection and a ground-truth object, both of them boxes
\* whose width and height differ, has been converted.
C1_Witness ==
    /\ mode = "evaluate"
    /\ \E n \in DOMAIN consumed :
          /\ Len(ResultsOf(consumed[n].image_id)) > 0
          /\ \E a \in Range(AnnotsOf(consumed[n].image_id)) :
                a.bbox[3] # a.bbox[4]
          /\ \E r \in Range(ResultsOf(consumed[n].image_id)) :
                r.bbox[3] # r.bbox[4]

\* C3: a batch pads every image to the longest ground truth of the batch with
\* label -1 and the box (0, 0, 0, 0), and evaluate emits for an image exactly
\* its entries whose label is not -1, in order: no annotation has category -1.
C3_NoPaddingAnnotation ==
    mode = "evaluate" =>
        /\ \A n \in DOMAIN consumed :
              LET c == consumed[n]
                  as == AnnotsOf(c.image_id)
                  real == {i \in DOMAIN c.labels : c.labels[i] # -1}
              IN  /\ Len(c.labels) = Len(c.bbs)
                  /\ Len(c.labels) >= Len(c.gt)
                  /\ \A i \in DOMAIN c.labels :
                        IF i <= Len(c.gt)
                        THEN c.labels[i] = c.gt[i].label /\ c.bbs[i] = c.gt[i].box
                        ELSE c.labels[i] = -1 /\ c.bbs[i] = Box(0, 0, 0, 0)
                  /\ real = 1..Len(as)
                  /\ \A i \in DOMAIN as :
                        /\ as[i].category_id = c.labels[i]
                        /\ IsCocoBox(as[i].bbox, c.bbs[i])
        /\ \A i \in DOMAIN gt_annotations : gt_annotations[i].category_id # -1

\* An image that was padded, and still got annotations, has been evaluated.
C3_Witness ==
    /\ mode = "evaluate"
    /\ \E n \in DOMAIN consumed :
          /\ Len(consumed[n].labels) > Len(consumed[n].gt)
          /\ Len(AnnotsOf(consumed[n].image_id)) > 0

\* C10: image ids are 1..n in processing order, annotation ids are 1..m with
\* no gap and no repeat, every annotation and every result carries the id of
\* the image it was produced from, and once indexed the results' ids are 1..r.
C10_IdsAreDense ==
    mode = "evaluate" =>
        /\ Len(gt_images) = Len(consumed)
        /\ \A n \in DOMAIN gt_images :
              /\ gt_images[n].id = n
              /\ consumed[n].image_id = n
              /\ Len(AnnotsOf(n)) = Len(consumed[n].gt)
              /\ Len(ResultsOf(n)) = Len(consumed[n].pred.labels)
        /\ image_id = Len(gt_images) + 1
        /\ \A i \in DOMAIN gt_annotations :
              /\ gt_annotations[i].id = i
              /\ gt_annotations[i].image_id \in DOMAIN gt_images
              /\ \A j \in DOMAIN gt_annotations :
                    i <= j => gt_annotations[i].image_id
                                <= gt_annotations[j].image_id
        /\ annot_id = Len(gt_annotations) + 1
        /\ \A i \in DOMAIN results_coco :
              results_coco[i].image_id \in DOMAIN gt_images
        /\ ev_pc = "done" =>
              \A i \in DOMAIN results_coco : results_coco[i].id = i

\* Two batches were evaluated, the second image has annotations after the
\* first one's, and two results were indexed.
C10_Witness ==
    /\ mode = "evaluate"
    /\ ev_pc = "done"
    /\ batch_size = 1
    /\ Len(gt_images) >= 2
    /\ Len(AnnotsOf(1)) >= 1
    /\ Len(AnnotsOf(2)) >= 1
    /\ Len(results_coco) >= 2

(***************************************************************************)
(* Properties of data.voc.build_dataset (checked under SpecData).          *)
(***************************************************************************)
\* The annotation behind image i of the emitted batch e
SourceOf(e, i) == batch_annots(annot_files, batch_size, e.index)[i]

RInUnit(v) == RLe(RZero, v) /\ RLe(v, R(1))

\* C4 as claimed: every coordinate of every non-padding box of an emitted
\* batch is a fraction in [0, 1] of the image size.
C4_BoxesAreFractions ==
    mode = "dataset" =>
        \A n \in DOMAIN emitted :
            LET b == emitted[n].batch
            IN  \A i \in DOMAIN b.labels : \A j \in DOMAIN b.labels[i] :
                    b.labels[i][j] # -1 =>
                        \A k \in 1..4 : RInUnit(b.bbs[i][j][k])

\* C4 as amended: every non-padding box of an emitted batch is in pixels of
\* the input size (h, w): each x is the annotation's x over the annotated
\* width times w and lies in [0, w], each y is the annotation's y over the
\* annotated height times h and lies in [0, h].
C4_BoxesAreInputPixels ==
    mode = "dataset" =>
        \A n \in DOMAIN emitted :
            LET b == emitted[n].batch
                h == im_input_size[1]
                w == im_input_size[2]
            IN  \A i \in DOMAIN b.labels :
                    LET a == SourceOf(emitted[n], i)
                    IN  \A j \in DOMAIN a.objects :
                            LET bb == b.bbs[i][j]
                                vb == a.objects[j].bndbox
                            IN  /\ b.labels[i][j] # -1
                                /\ RMul(bb[1], R(a.size[2])) = R(vb[1] * w)
                                /\ RMul(bb[3], R(a.size[2])) = R(vb[3] * w)
                                /\ RMul(bb[2], R(a.size[1])) = R(vb[2] * h)
                                /\ RMul(bb[4], R(a.size[1])) = R(vb[4] * h)
                                /\ RLe(RZero, bb[1]) /\ RLe(bb[1], bb[3])
                                /\ RLe(bb[3], R(w))
                                /\ RLe(RZero, bb[2]) /\ RLe(bb[2], bb[4])
                                /\ RLe(bb[4], R(h))

\* A batch was emitted with a box that reaches past 1 in x and in y, for an
\* input size that is not square.
C4_Witness ==
    /\ mode = "dataset"
    /\ im_input_size[1] # im_input_size[2]
    /\ \E n \in DOMAIN emitted :
          LET b == emitted[n].batch
          IN  \E i \in DOMAIN b.labels : \E j \in DOMAIN b.labels[i] :
                 /\ b.labels[i][j] # -1
                 /\ RLt(R(1), b.bbs[i][j][3])
                 /\ RLt(R(1), b.bbs[i][j][4])

\* C5: empty ground truth is a valid state of the input pipeline: whatever
\* the annotation files hold, an annotation with zero objects included,
\* iterating the dataset does not raise.
C5_EmptyGroundTruthIsValid ==
    mode = "dataset" => ds_pc # "error"

(***************************************************************************)
(* Properties of models.EfficientDet.call (checked under SpecCall).        *)
(***************************************************************************)
\* The stages among S that have run, in the order they ran
StagesRun(S) == SelectSeq(steps, LAMBDA x : x \in S)

\* C2: clipping runs only in inference mode and only after decoding.  With
\* training=False a call that returns has run decode, clip, nms in this order
\* and returns the nms of the clipped decoded boxes as (boxes, labels,
\* scores); with training=True no anchor, decode, clip or nms stage ever runs
\* and the call returns the raw (box deltas, class scores).
C2_ClipOnlyAfterDecode ==
    mode = "call" =>
        /\ training =>
              /\ StagesRun({"anchors", "decode", "clip", "nms"}) = <<>>
              /\ call_pc = "done" => result = <<bboxes, class_scores>>
        /\ \A i \in DOMAIN steps :
              steps[i] = "clip" =>
                  /\ ~training
                  /\ \E j \in 1..(i - 1) : steps[j] = "decode"
        /\ (~training /\ call_pc = "done") =>
              /\ StagesRun({"decode", "clip", "nms"}) = <<"decode", "clip", "nms">>
              /\ DOMAIN result = {"boxes", "labels", "scores"}
              /\ result = nms(clip_boxes(regress_bndboxes(anchors, bboxes).rows,
                                         im_input_size),
                              class_scores, num_classes)

\* An inference call returned detections whose boxes the clip had changed.
C2_Witness ==
    /\ mode = "call"
    /\ ~training
    /\ call_pc = "done"
    /\ Len(result.boxes) > 0
    /\ regress_bndboxes(anchors, bboxes).rows # boxes

C7_AssignerCoverage ==
    mode = "train" =>
        \A n \in DOMAIN tr_targets : \A b \in DOMAIN tr_targets[n] :
            LET t == tr_targets[n][b]
                gt == tr_batches[n].bbs[b]
                lb == tr_batches[n].labels[b]
                A == DOMAIN tr_anchors
            IN  /\ t.positive \cup t.negative \cup t.ignored = A
                /\ t.positive \cap t.negative = {}
                /\ t.positive \cap t.ignored = {}
                /\ t.negative \cap t.ignored = {}
                /\ \A a \in A :
                      /\ a \in t.positive <=>
                            \E g \in DOMAIN gt :
                                RLe(thresholds[2], iou(tr_anchors[a], gt[g]))
                      /\ a \in t.negative <=>
                            \A g \in DOMAIN gt :
                                RLt(iou(tr_anchors[a], gt[g]), thresholds[1])
                /\ (\A g \in DOMAIN lb : lb[g] = -1) => t.positive = {}

\* One batch held an image with only padding next to an image with a
\* positive anchor, and all three statuses occurred in it.
C7_Witness ==
    /\ mode = "train"
    /\ \E n \in DOMAIN tr_targets :
          /\ \E b \in DOMAIN tr_targets[n] :
                /\ tr_batches[n].labels[b] # <<>>
                /\ \A g \in DOMAIN tr_batches[n].labels[b] :
                      tr_batches[n].labels[b][g] = -1
          /\ \E b \in DOMAIN tr_targets[n] : tr_targets[n][b].positive # {}
          /\ \E b \in DOMAIN tr_targets[n] : tr_targets[n][b].ignored # {}
          /\ \E b \in DOMAIN tr_targets[n] : tr_targets[n][b].negative # {}

\* The scenario: a 128 x 128 input and an image annotated with the single box
\* (0.1, 0.1, 0.5, 0.5) of its size
IsScenario(n, b) ==
    /\ im_input_size = <<128, 128>>
    /\ tr_batches[n].annots[b] =
          [size |-> <<10, 10>>,
           objects |-> <<[name |-> "bin", bndbox |-> <<1, 1, 5, 5>>]>>]

ScenarioAnchor ==
    /\ Len(tr_anchors) = 1
    /\ RAdd(tr_anchors[1][1], tr_anchors[1][3]) = R(128)
    /\ RAdd(tr_anchors[1][2], tr_anchors[1][4]) = R(128)
    /\ RSub(tr_anchors[1][3], tr_anchors[1][1]) = R(128)
    /\ RSub(tr_anchors[1][4], tr_anchors[1][2]) = R(128)

\* C9 as claimed: in the scenario the generator emits one anchor centred at
\* (64, 64) and the assigner classifies it as positive.
C9_ScenarioAnchorIsPositive ==
    mode = "train" =>
        \A n \in DOMAIN tr_targets : \A b \in DOMAIN tr_targets[n] :
            IsScenario(n, b) =>
                /\ ScenarioAnchor
                /\ 1 \in tr_targets[n][b].positive

\* C9 as amended: in the scenario the generator emits one anchor centred at
\* (64, 64), the ground-truth box is scaled to (12.8, 12.8, 64, 64), and the
\* anchor's IoU with it is 0.16: the anchor is positive exactly when the
\* positive threshold is at most 0.16 and negative exactly when the negative
\* threshold is above 0.16.
C9_ScenarioAnchorIoU ==
    mode = "train" =>
        \A n \in DOMAIN tr_targets : \A b \in DOMAIN tr_targets[n] :
            IsScenario(n, b) =>
                /\ ScenarioAnchor
                /\ tr_batches[n].bbs[b][1] =
                      <<Rat(128, 10), Rat(128, 10), R(64), R(64)>>
                /\ 1 \in tr_targets[n][b].positive
                      <=> RLe(thresholds[2], Rat(16, 100))
                /\ 1 \in tr_targets[n][b].negative
                      <=> RLt(Rat(16, 100), thresholds[1])

\* The scenario was assigned under thresholds 0.4 / 0.5, and its anchor is
\* negative.
C9_Witness ==
    /\ mode = "train"
    /\ thresholds = <<Rat(2, 5), Rat(1, 2)>>
    /\ \E n \in DOMAIN tr_targets : \E b \in DOMAIN tr_targets[n] :
          /\ IsScenario(n, b)
          /\ 1 \in tr_targets[n][b].negative

(***************************************************************************)
(* Properties of utils.bndbox.nms (checked under SpecNms).                 *)
(***************************************************************************)
\* C8: nms applied to its own output returns that output unchanged.
C8_NmsIdempotent ==
    (mode = "nms" /\ nms_pc = "done") => nms_again = nms_out

\* The first application suppressed two boxes of one class and kept two
\* detections.
C8_Witness ==
    /\ mode = "nms"
    /\ nms_pc = "done"
    /\ Len(nms_out.boxes) >= 2
    /\ \E c \in 1..nms_in.nc :
          LET cand == {i \in DOMAIN nms_in.boxes :
                          RLe(score_threshold, nms_in.scores[i][c])}
              kept == {i \in DOMAIN nms_out.labels : nms_out.labels[i] = c - 1}
          IN  Cardinality(cand) >= Cardinality(kept) + 2
====
